---- MODULE Spec2Model ----
(***************************************************************************)
(* The order state machine and escrow custody protocol of splerg-p2p       *)
(* (programs/splerg-p2p/src/processor/mod.rs): the five instruction        *)
(* handlers of Processor, run as atomic transactions of the ledger         *)
(* runtime over order accounts, token accounts and lamport balances.       *)
(***************************************************************************)
EXTENDS Integers, Sequences, FiniteSets, TLC

VARIABLES
    orders,       \* order account address -> the SwapOrder record stored there
    tokens,       \* token account -> [open, amount, lamports]
    lamports,     \* lamports of the users and of the order accounts
    mintProgram,  \* mint -> the token program that owns the mint and its accounts
    last          \* the most recent transaction: instruction, result, request, transfers

vars == <<orders, tokens, lamports, mintProgram, last>>

----------------------------------------------------------------------------
(* Bounds and the universe of keys.                                        *)

MaxAmount == 2             \* with the order account of one maker
MaxAmountTwoMakers == 1    \* with the order accounts of two makers

Alice == <<"alice">>
Bob == <<"bob">>
Users == {Alice, Bob}
Keypair == <<"keypair">>       \* an address whose private key a user holds
ZeroKey == <<"zero">>          \* Pubkey::default(), the all-zero key
Mints == {"mintA", "mintB"}
TokenPrograms == {"spl_token", "spl_token_2022"}
Programs == TokenPrograms \cup {"other_program"}

\* rent.minimum_balance(space): the lamports that make an account rent exempt
rent_lamports == 1
InitialLamports == 2 * rent_lamports

\* the (maker, maker mint, taker mint) seeds requests are drawn from: one
\* maker, or two makers offering the same mint
OneMaker == {<<Alice, "mintA", "mintB">>}
TwoMakers == {<<Alice, "mintA", "mintB">>, <<Bob, "mintA", "mintB">>}

\* the seeds of the derived order accounts of the ledger
OrderSeeds == {<<a[2], a[3], a[4]>> : a \in DOMAIN orders \ {Keypair}}

\* the amounts of the requests, and the tokens a user holds at the start
AmountBound == IF OrderSeeds = OneMaker THEN MaxAmount ELSE MaxAmountTwoMakers
Amounts == 0..AmountBound
InitialTokens == AmountBound

\* get_order_pda: the program-derived address of the seeds and its bump; the
\* address is a deterministic, injective function of the seeds
get_order_pda(maker, maker_mint, taker_mint) ==
    [address |-> <<"order", maker, maker_mint, taker_mint>>, bump |-> 255]

PdaAddrs == {get_order_pda(s[1], s[2], s[3]).address : s \in OrderSeeds}
OrderAddrs == PdaAddrs \cup {Keypair}

\* token accounts are named by (owner, mint): the holding accounts of the
\* users and the custody accounts owned by the order addresses
HoldingAccts == Users \X Mints
CustodyAccts == {<<a, s[2]>> : a \in OrderAddrs, s \in OrderSeeds}
TokenAccts == HoldingAccts \cup CustodyAccts

\* an account holding no order: unallocated, all data zero
NoOrder ==
    [allocated |-> FALSE, maker |-> ZeroKey, taker |-> ZeroKey,
     maker_token_mint |-> "none", taker_token_mint |-> "none",
     maker_amount |-> 0, taker_amount |-> 0, bump |-> 0]

\* SwapOrder::new, serialised into an allocated order account
SwapOrder_new(maker, taker, maker_mint, taker_mint, maker_amount, taker_amount, bump) ==
    [allocated |-> TRUE, maker |-> maker, taker |-> taker,
     maker_token_mint |-> maker_mint, taker_token_mint |-> taker_mint,
     maker_amount |-> maker_amount, taker_amount |-> taker_amount, bump |-> bump]

ClosedToken == [open |-> FALSE, amount |-> 0, lamports |-> 0]

\* the ledger state a handler works on
Ledger == [orders |-> orders, tokens |-> tokens, lamports |-> lamports]

Step(e, st) == [err |-> e, st |-> st]
Result(e, st, tr) == [err |-> e, st |-> st, transfers |-> tr]
Transfer(from, to, authority, amount) ==
    [from |-> from, to |-> to, authority |-> authority, amount |-> amount]

\* e when the check e failed, else the outcome of the checks after it
Then(e, rest) == IF e # "Ok" THEN e ELSE rest

----------------------------------------------------------------------------
(* The collaborators: validation layer, token programs, system program.    *)

validate_signer(is_signer) == IF is_signer THEN "Ok" ELSE "MissingSigner"

validate_init_amounts(maker_amount, taker_amount) ==
    IF maker_amount = 0 \/ taker_amount = 0 THEN "InvalidAmount" ELSE "Ok"

validate_token_mint(mint) ==
    IF mint \in Mints THEN "Ok" ELSE "AssetDescriptorMismatch"

check_spl_token_program_account(program) ==
    IF program \in TokenPrograms THEN "Ok" ELSE "IncorrectProgramId"

validate_token_program(mint, program) ==
    IF mint \in Mints /\ mintProgram[mint] = program THEN "Ok" ELSE "InvalidTokenProgram"

\* the token account exists, and its owner and mint are the expected ones
validate_token_account(st, account, owner, mint) ==
    IF ~st.tokens[account].open THEN "InvalidAccountData"
    ELSE IF account[1] # owner THEN "AccountOwnerMismatch"
    ELSE IF account[2] # mint THEN "AssetDescriptorMismatch"
    ELSE "Ok"

validate_system_program(key) ==
    IF key = "system_program" THEN "Ok" ELSE "IncorrectProgramId"

validate_rent_sysvar(key) ==
    IF key = "rent_sysvar" THEN "Ok" ELSE "InvalidRentSysvar"

\* validate_order_pda: deserialise the record, recompute the address from
\* its maker and mints, compare with the address of the supplied account
validate_order_pda(st, order_account) ==
    LET order == st.orders[order_account]
    IN  IF ~order.allocated THEN "BorshIoError"
        ELSE IF get_order_pda(order.maker, order.maker_token_mint,
                              order.taker_token_mint).address # order_account
        THEN "AddressMismatch"
        ELSE "Ok"

validate_authority(authority, order) ==
    IF authority # order.maker THEN "AuthorityMismatch" ELSE "Ok"

validate_taker(taker, order) ==
    IF taker # order.taker THEN "CounterpartyMismatch" ELSE "Ok"

\* spl_token / spl_token_2022 transfer. `signed` says the authority signs the
\* call: as a signer of the transaction, or by the seeds of invoke_signed.
\* a transfer that credits the destination and leaves the source as it was:
\* C17 depends on the debit
token_transfer_without_debit(st, program, source, destination, authority, signed, amount) ==
    LET src == st.tokens[source]
        dst == st.tokens[destination]
    IN  IF mintProgram[source[2]] # program \/ mintProgram[destination[2]] # program
        THEN Step("IncorrectProgramId", st)
        ELSE IF ~src.open \/ ~dst.open THEN Step("UninitializedAccount", st)
        ELSE IF src.amount < amount THEN Step("TokenInsufficientFunds", st)
        ELSE IF source[2] # destination[2] THEN Step("MintMismatch", st)
        ELSE IF authority # source[1] THEN Step("OwnerMismatch", st)
        ELSE IF ~signed THEN Step("MissingRequiredSignature", st)
        ELSE IF source = destination \/ amount = 0 THEN Step("Ok", st)
        ELSE Step("Ok", [st EXCEPT !.tokens[destination].amount = dst.amount + amount])

token_transfer(st, program, source, destination, authority, signed, amount) ==
    LET src == st.tokens[source]
        dst == st.tokens[destination]
    IN  IF mintProgram[source[2]] # program \/ mintProgram[destination[2]] # program
        THEN Step("IncorrectProgramId", st)
        ELSE IF ~src.open \/ ~dst.open THEN Step("UninitializedAccount", st)
        ELSE IF src.amount < amount THEN Step("TokenInsufficientFunds", st)
        ELSE IF source[2] # destination[2] THEN Step("MintMismatch", st)
        ELSE IF authority # source[1] THEN Step("OwnerMismatch", st)
        ELSE IF ~signed THEN Step("MissingRequiredSignature", st)
        ELSE IF source = destination \/ amount = 0 THEN Step("Ok", st)
        ELSE Step("Ok",
                  [st EXCEPT !.tokens[source].amount = src.amount - amount,
                             !.tokens[destination].amount = dst.amount + amount])

\* spl_token / spl_token_2022 close_account: an empty account is closed and
\* its lamports go to the destination
token_close_account(st, program, account, destination, authority, signed) ==
    LET acc == st.tokens[account]
    IN  IF mintProgram[account[2]] # program THEN Step("IncorrectProgramId", st)
        ELSE IF ~acc.open THEN Step("UninitializedAccount", st)
        ELSE IF acc.amount # 0 THEN Step("NonNativeHasBalance", st)
        ELSE IF authority # account[1] THEN Step("OwnerMismatch", st)
        ELSE IF ~signed THEN Step("MissingRequiredSignature", st)
        ELSE Step("Ok",
                  [st EXCEPT !.tokens[account] = ClosedToken,
                             !.lamports[destination] = @ + acc.lamports])

\* system_instruction::create_account: the new account signs (itself, or by
\* the seeds of invoke_signed), is not in use, and the payer can fund it
create_account(st, from, to, amount, to_signed) ==
    IF ~to_signed THEN Step("MissingRequiredSignature", st)
    ELSE IF st.orders[to].allocated \/ st.lamports[to] > 0
    THEN Step("AccountAlreadyInUse", st)
    ELSE IF st.lamports[from] < amount THEN Step("InsufficientLamports", st)
    ELSE Step("Ok",
              [st EXCEPT !.lamports[from] = @ - amount,
                         !.lamports[to] = @ + amount,
                         !.orders[to] = [NoOrder EXCEPT !.allocated = TRUE]])

----------------------------------------------------------------------------
(* Processor::process_initialize_order                                     *)

\* initialize_order_checks with the amounts validated last instead of right
\* after the signer: C6 depends on the place of validate_init_amounts
initialize_order_checks_amounts_last(st, r) ==
    Then(validate_signer(r.maker_signed),
    Then(validate_token_mint(r.maker_mint),
    Then(validate_token_mint(r.taker_mint),
    Then(check_spl_token_program_account(r.token_program),
    Then(validate_token_program(r.maker_mint, r.token_program),
    Then(validate_token_account(st, r.maker_mint_ata, r.maker, r.maker_mint),
    Then(validate_system_program(r.system_program),
    Then(validate_rent_sysvar(r.rent),
    Then(validate_token_account(st, r.order_maker_mint_ata, r.order_account,
                                r.maker_mint),
         validate_init_amounts(r.maker_amount, r.taker_amount))))))))))

initialize_order_checks(st, r) ==
    Then(validate_signer(r.maker_signed),
    Then(validate_init_amounts(r.maker_amount, r.taker_amount),
    Then(validate_token_mint(r.maker_mint),
    Then(validate_token_mint(r.taker_mint),
    Then(check_spl_token_program_account(r.token_program),
    Then(validate_token_program(r.maker_mint, r.token_program),
    Then(validate_token_account(st, r.maker_mint_ata, r.maker, r.maker_mint),
    Then(validate_system_program(r.system_program),
    Then(validate_rent_sysvar(r.rent),
         validate_token_account(st, r.order_maker_mint_ata, r.order_account,
                                r.maker_mint))))))))))

\* process_initialize_order depositing taker_amount instead of maker_amount:
\* C5 depends on the amount of the deposit
process_initialize_order_deposits_taker_amount(st, r) ==
    LET pre == initialize_order_checks(st, r)
        pda == get_order_pda(r.maker, r.maker_mint, r.taker_mint)
        created == create_account(st, r.maker, r.order_account, rent_lamports,
                                  r.order_signed \/ pda.address = r.order_account)
        deposit == token_transfer(created.st, r.token_program, r.maker_mint_ata,
                                  r.order_maker_mint_ata, r.maker, r.maker_signed,
                                  r.taker_amount)
        order == SwapOrder_new(r.maker, r.taker, r.maker_mint, r.taker_mint,
                               r.maker_amount, r.taker_amount, pda.bump)
    IN  IF pre # "Ok" THEN Result(pre, st, <<>>)
        ELSE IF created.err # "Ok" THEN Result(created.err, created.st, <<>>)
        ELSE IF deposit.err # "Ok" THEN Result(deposit.err, deposit.st, <<>>)
        ELSE Result("Ok",
                    [deposit.st EXCEPT !.orders[r.order_account] = order],
                    <<Transfer(r.maker_mint_ata, r.order_maker_mint_ata, r.maker,
                               r.taker_amount)>>)

process_initialize_order(st, r) ==
    LET pre == initialize_order_checks(st, r)
        pda == get_order_pda(r.maker, r.maker_mint, r.taker_mint)
        \* invoke_signed(create_account, seeds): the order account signs when
        \* it is the address of the seeds or a signer of the transaction
        created == create_account(st, r.maker, r.order_account, rent_lamports,
                                  r.order_signed \/ pda.address = r.order_account)
        \* invoke(transfer): maker's account -> custody, authority the maker
        deposit == token_transfer(created.st, r.token_program, r.maker_mint_ata,
                                  r.order_maker_mint_ata, r.maker, r.maker_signed,
                                  r.maker_amount)
        order == SwapOrder_new(r.maker, r.taker, r.maker_mint, r.taker_mint,
                               r.maker_amount, r.taker_amount, pda.bump)
    IN  IF pre # "Ok" THEN Result(pre, st, <<>>)
        ELSE IF created.err # "Ok" THEN Result(created.err, created.st, <<>>)
        ELSE IF deposit.err # "Ok" THEN Result(deposit.err, deposit.st, <<>>)
        ELSE Result("Ok",
                    [deposit.st EXCEPT !.orders[r.order_account] = order],
                    <<Transfer(r.maker_mint_ata, r.order_maker_mint_ata, r.maker,
                               r.maker_amount)>>)

----------------------------------------------------------------------------
(* Processor::process_change_order_amounts                                 *)

change_order_amounts_checks(st, r) ==
    LET order == st.orders[r.order_account]
    IN  Then(validate_order_pda(st, r.order_account),
        Then(validate_authority(r.maker, order),
        Then(check_spl_token_program_account(r.token_program),
        Then(validate_token_account(st, r.order_token_account, r.order_account,
                                    order.maker_token_mint),
             \* the second call validates the custody account again: the
             \* maker's token account is not validated
             validate_token_account(st, r.order_token_account, r.order_account,
                                    order.maker_token_mint)))))

process_change_order_amounts(st, r) ==
    LET pre == change_order_amounts_checks(st, r)
        order == st.orders[r.order_account]
        current_escrow_amount == st.tokens[r.order_token_account].amount
        additional_amount == r.new_maker_amount - current_escrow_amount
        refund_amount == current_escrow_amount - r.new_maker_amount
        \* Greater: invoke(transfer), the maker is the authority
        deposit == token_transfer(st, r.token_program, r.maker_token_account,
                                  r.order_token_account, r.maker, TRUE,
                                  additional_amount)
        \* Less: invoke_signed(transfer), the order account is the authority,
        \* signing by the seeds (maker_info.key, both mints, bump)
        refund == token_transfer(st, r.token_program, r.order_token_account,
                                 r.maker_token_account, r.order_account,
                                 get_order_pda(r.maker, order.maker_token_mint,
                                               order.taker_token_mint).address
                                     = r.order_account,
                                 refund_amount)
        moved == IF r.new_maker_amount > current_escrow_amount THEN deposit
                 ELSE IF r.new_maker_amount < current_escrow_amount THEN refund
                 ELSE Step("Ok", st)
        transfers ==
            IF r.new_maker_amount > current_escrow_amount
            THEN <<Transfer(r.maker_token_account, r.order_token_account, r.maker,
                            additional_amount)>>
            ELSE IF r.new_maker_amount < current_escrow_amount
            THEN <<Transfer(r.order_token_account, r.maker_token_account,
                            r.order_account, refund_amount)>>
            ELSE <<>>
    IN  IF pre # "Ok" THEN Result(pre, st, <<>>)
        ELSE IF moved.err # "Ok" THEN Result(moved.err, moved.st, <<>>)
        ELSE Result("Ok",
                    [moved.st EXCEPT
                        !.orders[r.order_account].maker_amount = r.new_maker_amount,
                        !.orders[r.order_account].taker_amount = r.new_taker_amount],
                    transfers)

----------------------------------------------------------------------------
(* Processor::process_change_taker                                         *)

\* process_change_taker without validate_authority: C7 depends on it
process_change_taker_any_caller(st, r) ==
    LET order == st.orders[r.order_account]
    IN  IF ~order.allocated THEN Result("BorshIoError", st, <<>>)
        ELSE IF r.new_taker # r.new_taker_info THEN Result("InvalidArgument", st, <<>>)
        ELSE Result("Ok", [st EXCEPT !.orders[r.order_account].taker = r.new_taker], <<>>)

\* process_change_taker without the comparison of new_taker with the key of
\* new_taker_info: C11 depends on it
process_change_taker_any_new_taker(st, r) ==
    LET order == st.orders[r.order_account]
    IN  IF ~order.allocated THEN Result("BorshIoError", st, <<>>)
        ELSE IF validate_authority(r.maker, order) # "Ok"
        THEN Result(validate_authority(r.maker, order), st, <<>>)
        ELSE Result("Ok", [st EXCEPT !.orders[r.order_account].taker = r.new_taker], <<>>)

process_change_taker(st, r) ==
    LET order == st.orders[r.order_account]
    IN  \* SwapOrder::try_from_slice: no check of the account's address
        IF ~order.allocated THEN Result("BorshIoError", st, <<>>)
        ELSE IF validate_authority(r.maker, order) # "Ok"
        THEN Result(validate_authority(r.maker, order), st, <<>>)
        ELSE IF r.new_taker # r.new_taker_info THEN Result("InvalidArgument", st, <<>>)
        ELSE Result("Ok", [st EXCEPT !.orders[r.order_account].taker = r.new_taker], <<>>)

----------------------------------------------------------------------------
(* Processor::process_complete_swap                                        *)

\* complete_swap_checks without the escrow balance check: C1 depends on it
complete_swap_checks_without_escrow_check(st, r) ==
    LET order == st.orders[r.order_account]
    IN  Then(validate_order_pda(st, r.order_account),
        Then(validate_taker(r.taker, order),
        Then(check_spl_token_program_account(r.token_program),
        Then(validate_token_account(st, r.maker_taker_mint_ata, order.maker,
                                    order.taker_token_mint),
        Then(validate_token_account(st, r.taker_maker_mint_ata, r.taker,
                                    order.maker_token_mint),
        Then(validate_token_account(st, r.taker_sending_ata, r.taker,
                                    order.taker_token_mint),
             validate_token_account(st, r.order_maker_token_ata, r.order_account,
                                    order.maker_token_mint)))))))

\* complete_swap_checks without validate_taker: C12 depends on it
complete_swap_checks_any_taker(st, r) ==
    LET order == st.orders[r.order_account]
    IN  Then(validate_order_pda(st, r.order_account),
        Then(check_spl_token_program_account(r.token_program),
        Then(validate_token_account(st, r.maker_taker_mint_ata, order.maker,
                                    order.taker_token_mint),
        Then(validate_token_account(st, r.taker_maker_mint_ata, r.taker,
                                    order.maker_token_mint),
        Then(validate_token_account(st, r.taker_sending_ata, r.taker,
                                    order.taker_token_mint),
        Then(validate_token_account(st, r.order_maker_token_ata, r.order_account,
                                    order.maker_token_mint),
             IF st.tokens[r.order_maker_token_ata].amount < order.maker_amount
             THEN "InsufficientFunds" ELSE "Ok"))))))

complete_swap_checks(st, r) ==
    LET order == st.orders[r.order_account]
    IN  Then(validate_order_pda(st, r.order_account),
        Then(validate_taker(r.taker, order),
        Then(check_spl_token_program_account(r.token_program),
        Then(validate_token_account(st, r.maker_taker_mint_ata, order.maker,
                                    order.taker_token_mint),
        Then(validate_token_account(st, r.taker_maker_mint_ata, r.taker,
                                    order.maker_token_mint),
        Then(validate_token_account(st, r.taker_sending_ata, r.taker,
                                    order.taker_token_mint),
        Then(validate_token_account(st, r.order_maker_token_ata, r.order_account,
                                    order.maker_token_mint),
             \* Verify we have enough tokens in escrow
             IF st.tokens[r.order_maker_token_ata].amount < order.maker_amount
             THEN "InsufficientFunds" ELSE "Ok")))))))

\* process_complete_swap zeroing the order record once both legs are done:
\* C13 depends on the record being left alone
process_complete_swap_closes_order(st, r) ==
    LET pre == complete_swap_checks(st, r)
        order == st.orders[r.order_account]
        paid == token_transfer(st, r.token_program, r.taker_sending_ata,
                               r.maker_taker_mint_ata, r.taker, TRUE,
                               order.taker_amount)
        released == token_transfer(paid.st, r.token_program, r.order_maker_token_ata,
                                   r.taker_maker_mint_ata, r.order_account,
                                   get_order_pda(order.maker, order.maker_token_mint,
                                                 order.taker_token_mint).address
                                       = r.order_account,
                                   order.maker_amount)
    IN  IF pre # "Ok" THEN Result(pre, st, <<>>)
        ELSE IF paid.err # "Ok" THEN Result(paid.err, paid.st, <<>>)
        ELSE IF released.err # "Ok" THEN Result(released.err, released.st, <<>>)
        ELSE Result("Ok", [released.st EXCEPT !.orders[r.order_account] = NoOrder],
                    <<Transfer(r.taker_sending_ata, r.maker_taker_mint_ata, r.taker,
                               order.taker_amount),
                      Transfer(r.order_maker_token_ata, r.taker_maker_mint_ata,
                               r.order_account, order.maker_amount)>>)

process_complete_swap(st, r) ==
    LET pre == complete_swap_checks(st, r)
        order == st.orders[r.order_account]
        \* invoke(transfer): taker -> maker, the taker is the authority
        paid == token_transfer(st, r.token_program, r.taker_sending_ata,
                               r.maker_taker_mint_ata, r.taker, TRUE,
                               order.taker_amount)
        \* invoke_signed(transfer): custody -> taker, the order account is the
        \* authority, signing by the seeds (order.maker, both mints, bump)
        released == token_transfer(paid.st, r.token_program, r.order_maker_token_ata,
                                   r.taker_maker_mint_ata, r.order_account,
                                   get_order_pda(order.maker, order.maker_token_mint,
                                                 order.taker_token_mint).address
                                       = r.order_account,
                                   order.maker_amount)
    IN  IF pre # "Ok" THEN Result(pre, st, <<>>)
        ELSE IF paid.err # "Ok" THEN Result(paid.err, paid.st, <<>>)
        ELSE IF released.err # "Ok" THEN Result(released.err, released.st, <<>>)
        ELSE Result("Ok", released.st,
                    <<Transfer(r.taker_sending_ata, r.maker_taker_mint_ata, r.taker,
                               order.taker_amount),
                      Transfer(r.order_maker_token_ata, r.taker_maker_mint_ata,
                               r.order_account, order.maker_amount)>>)

----------------------------------------------------------------------------
(* Processor::process_close_order                                          *)

close_order_checks(st, r) ==
    LET order == st.orders[r.order_account]
    IN  Then(validate_order_pda(st, r.order_account),
        Then(validate_authority(r.authority, order),
        Then(check_spl_token_program_account(r.token_program),
        Then(validate_token_account(st, r.order_token_ata, r.order_account,
                                    order.maker_token_mint),
             validate_token_account(st, r.maker_token_ata, order.maker,
                                    order.maker_token_mint)))))

\* process_close_order without data.fill(0): C18 depends on the zeroing of
\* the record
process_close_order_keeps_record(st, r) ==
    LET pre == close_order_checks(st, r)
        order == st.orders[r.order_account]
        amount == st.tokens[r.order_token_ata].amount
        seeds_sign == get_order_pda(order.maker, order.maker_token_mint,
                                    order.taker_token_mint).address = r.order_account
        refund == token_transfer(st, r.token_program, r.order_token_ata,
                                 r.maker_token_ata, r.order_account, seeds_sign, amount)
        closed == token_close_account(refund.st, r.token_program, r.order_token_ata,
                                      r.authority, r.order_account, seeds_sign)
        drained == IF amount > 0
                   THEN (IF refund.err # "Ok" THEN refund ELSE closed)
                   ELSE Step("Ok", st)
        rent == drained.st.lamports[r.order_account]
    IN  IF pre # "Ok" THEN Result(pre, st, <<>>)
        ELSE IF drained.err # "Ok" THEN Result(drained.err, drained.st, <<>>)
        ELSE Result("Ok",
                    [drained.st EXCEPT !.lamports[r.order_account] = 0,
                                       !.lamports[r.authority] = @ + rent],
                    IF amount > 0
                    THEN <<Transfer(r.order_token_ata, r.maker_token_ata,
                                    r.order_account, amount)>>
                    ELSE <<>>)

process_close_order(st, r) ==
    LET pre == close_order_checks(st, r)
        order == st.orders[r.order_account]
        amount == st.tokens[r.order_token_ata].amount
        seeds_sign == get_order_pda(order.maker, order.maker_token_mint,
                                    order.taker_token_mint).address = r.order_account
        \* if token_data.amount > 0: transfer the balance to the maker, then
        \* close the custody account, its lamports going to the authority
        refund == token_transfer(st, r.token_program, r.order_token_ata,
                                 r.maker_token_ata, r.order_account, seeds_sign, amount)
        closed == token_close_account(refund.st, r.token_program, r.order_token_ata,
                                      r.authority, r.order_account, seeds_sign)
        drained == IF amount > 0
                   THEN (IF refund.err # "Ok" THEN refund ELSE closed)
                   ELSE Step("Ok", st)
        \* the order account's lamports go to the authority, its data is zeroed
        rent == drained.st.lamports[r.order_account]
    IN  IF pre # "Ok" THEN Result(pre, st, <<>>)
        ELSE IF drained.err # "Ok" THEN Result(drained.err, drained.st, <<>>)
        ELSE Result("Ok",
                    [drained.st EXCEPT !.lamports[r.order_account] = 0,
                                       !.lamports[r.authority] = @ + rent,
                                       !.orders[r.order_account] = NoOrder],
                    IF amount > 0
                    THEN <<Transfer(r.order_token_ata, r.maker_token_ata,
                                    r.order_account, amount)>>
                    ELSE <<>>)

----------------------------------------------------------------------------
(* The requests: the accounts and data of each instruction.  Each set      *)
(* holds the well-formed requests for the seeds (the conventional account  *)
(* list, the token program of the maker's mint) and, on a few of them,     *)
(* every single deviation from the well-formed account list; with two      *)
(* makers in the ledger, the well-formed requests only.                    *)

PdaOf(s) == get_order_pda(s[1], s[2], s[3]).address
OtherUser(u) == CHOOSE v \in Users : v # u
OtherTokenProgram(p) == CHOOSE q \in TokenPrograms : q # p

InitializeWellFormed ==
    {[maker |-> s[1], maker_signed |-> TRUE,
      order_account |-> PdaOf(s), order_signed |-> FALSE,
      maker_mint_ata |-> <<s[1], s[2]>>, order_maker_mint_ata |-> <<PdaOf(s), s[2]>>,
      taker |-> t, maker_mint |-> s[2], taker_mint |-> s[3],
      system_program |-> "system_program", rent |-> "rent_sysvar",
      token_program |-> mintProgram[s[2]], maker_amount |-> ma, taker_amount |-> ta] :
        s \in OrderSeeds, t \in Users, ma \in Amounts, ta \in Amounts}

InitializeDeviations(r) ==
    {[r EXCEPT !.maker_signed = FALSE],
     \* the order account is an address with a private key, which signs
     [r EXCEPT !.order_account = Keypair, !.order_signed = TRUE,
               !.order_maker_mint_ata = <<Keypair, r.maker_mint>>],
     [r EXCEPT !.order_account = Keypair,
               !.order_maker_mint_ata = <<Keypair, r.maker_mint>>],
     [r EXCEPT !.maker_mint_ata = <<OtherUser(r.maker), r.maker_mint>>],
     [r EXCEPT !.order_maker_mint_ata = <<Keypair, r.maker_mint>>],
     [r EXCEPT !.system_program = "other_program"],
     [r EXCEPT !.rent = "other_sysvar"],
     [r EXCEPT !.token_program = OtherTokenProgram(r.token_program)],
     [r EXCEPT !.token_program = "other_program"],
     [r EXCEPT !.taker_mint = "not_a_mint"]}

InitializeRequests ==
    InitializeWellFormed \cup
    UNION {InitializeDeviations(r) :
             r \in {q \in InitializeWellFormed :
                      /\ OrderSeeds = OneMaker
                      /\ q.taker # q.maker /\ q.taker_amount = 1 /\ q.maker_amount <= 1}}

\* the maker's token account is not validated: any account may be named
MakerTokenAccountChoices(s) ==
    {<<s[1], s[2]>>, <<OtherUser(s[1]), s[2]>>} \cup {<<a, s[2]>> : a \in PdaAddrs}

ChangeOrderAmountsWellFormed ==
    UNION {{[maker |-> s[1], order_account |-> PdaOf(s),
             order_token_account |-> <<PdaOf(s), s[2]>>, maker_token_account |-> m,
             token_program |-> mintProgram[s[2]],
             new_maker_amount |-> ma, new_taker_amount |-> ta] :
               m \in MakerTokenAccountChoices(s), ma \in Amounts, ta \in Amounts} :
           s \in OrderSeeds}

ChangeOrderAmountsDeviations(r) ==
    {[r EXCEPT !.maker = OtherUser(r.maker)],
     [r EXCEPT !.order_account = Keypair,
               !.order_token_account = <<Keypair, r.order_token_account[2]>>],
     [r EXCEPT !.order_token_account = <<Keypair, r.order_token_account[2]>>],
     [r EXCEPT !.order_token_account = r.maker_token_account],
     [r EXCEPT !.token_program = OtherTokenProgram(r.token_program)],
     [r EXCEPT !.token_program = "other_program"]}

ChangeOrderAmountsRequests ==
    ChangeOrderAmountsWellFormed \cup
    UNION {ChangeOrderAmountsDeviations(r) :
             r \in {q \in ChangeOrderAmountsWellFormed :
                      /\ OrderSeeds = OneMaker
                      /\ q.maker_token_account = <<q.maker, q.order_token_account[2]>>
                      /\ q.new_taker_amount = 1 /\ q.new_maker_amount >= 1}}

ChangeTakerRequests ==
    [maker : Users, order_account : OrderAddrs, new_taker_info : Users, new_taker : Users]

CompleteSwapWellFormed ==
    {[taker |-> t, order_account |-> PdaOf(s),
      maker_taker_mint_ata |-> <<s[1], s[3]>>, taker_sending_ata |-> <<t, s[3]>>,
      taker_maker_mint_ata |-> <<t, s[2]>>, order_maker_token_ata |-> <<PdaOf(s), s[2]>>,
      token_program |-> mintProgram[s[2]]] :
        s \in OrderSeeds, t \in Users}

CompleteSwapDeviations(r) ==
    {[r EXCEPT !.order_account = Keypair,
               !.order_maker_token_ata = <<Keypair, r.order_maker_token_ata[2]>>],
     [r EXCEPT !.maker_taker_mint_ata = <<OtherUser(r.maker_taker_mint_ata[1]),
                                          r.maker_taker_mint_ata[2]>>],
     [r EXCEPT !.taker_sending_ata = r.taker_maker_mint_ata],
     [r EXCEPT !.taker_maker_mint_ata = <<OtherUser(r.taker), r.taker_maker_mint_ata[2]>>],
     [r EXCEPT !.order_maker_token_ata = <<Keypair, r.order_maker_token_ata[2]>>],
     [r EXCEPT !.token_program = OtherTokenProgram(r.token_program)],
     [r EXCEPT !.token_program = "other_program"]}

CompleteSwapRequests ==
    CompleteSwapWellFormed \cup UNION {CompleteSwapDeviations(r) :
             r \in {q \in CompleteSwapWellFormed : OrderSeeds = OneMaker}}

CloseOrderWellFormed ==
    {[authority |-> a, order_account |-> PdaOf(s),
      order_token_ata |-> <<PdaOf(s), s[2]>>, maker_token_ata |-> <<s[1], s[2]>>,
      token_program |-> mintProgram[s[2]]] :
        s \in OrderSeeds, a \in Users}

CloseOrderDeviations(r) ==
    {[r EXCEPT !.order_account = Keypair,
               !.order_token_ata = <<Keypair, r.order_token_ata[2]>>],
     [r EXCEPT !.order_token_ata = <<Keypair, r.order_token_ata[2]>>],
     [r EXCEPT !.maker_token_ata = <<OtherUser(r.maker_token_ata[1]), r.maker_token_ata[2]>>],
     [r EXCEPT !.token_program = OtherTokenProgram(r.token_program)],
     [r EXCEPT !.token_program = "other_program"]}

CloseOrderRequests ==
    CloseOrderWellFormed \cup UNION {CloseOrderDeviations(r) :
             r \in {q \in CloseOrderWellFormed : OrderSeeds = OneMaker}}

----------------------------------------------------------------------------
(* The state machine.                                                      *)

\* the mint-to-token-program assignments considered: both mints under
\* spl_token, and the maker's mint under spl_token_2022
MintPrograms ==
    {[m \in Mints |-> "spl_token"],
     [m \in Mints |-> IF m = "mintA" THEN "spl_token_2022" ELSE "spl_token"]}

\* with two makers, both mints under spl_token
MintProgramsOf(seeds) ==
    IF seeds = OneMaker THEN MintPrograms ELSE {[m \in Mints |-> "spl_token"]}

NoRequest == [none |-> TRUE]

InitOf(seeds) ==
    /\ orders = [a \in {get_order_pda(s[1], s[2], s[3]).address : s \in seeds}
                          \cup {Keypair} |-> NoOrder]
    \* every maker holds InitialTokens of the mint offered and Bob of the mint
    \* asked for; the custody accounts were opened, empty, by the client
    \* before the order is created
    /\ tokens = [k \in TokenAccts |->
                    [open |-> TRUE,
                     amount |-> IF k \in {<<s[1], s[2]>> : s \in seeds} \cup {<<Bob, "mintB">>}
                                THEN InitialTokens ELSE 0,
                     lamports |-> rent_lamports]]
    /\ lamports = [a \in Users \cup OrderAddrs |->
                    IF a \in Users THEN InitialLamports ELSE 0]
    /\ mintProgram \in MintProgramsOf(seeds)
    /\ last = [op |-> "None", err |-> "Ok", req |-> NoRequest, transfers |-> <<>>]

Init == InitOf(OneMaker)

InitTwoMakers == InitOf(TwoMakers)

\* Processor::process: the handler of the instruction
process(op, r) ==
    CASE op = "InitializeOrder" -> process_initialize_order(Ledger, r)
      [] op = "ChangeOrderAmounts" -> process_change_order_amounts(Ledger, r)
      [] op = "ChangeTaker" -> process_change_taker(Ledger, r)
      [] op = "CompleteSwap" -> process_complete_swap(Ledger, r)
      [] op = "CloseOrder" -> process_close_order(Ledger, r)

\* a runtime that keeps what a failed instruction wrote: C10 depends on the
\* rollback
Committed_without_rollback(res) == res.st

\* the ledger runtime commits the effects of a transaction that returned Ok
\* and discards the effects of one that returned an error
Committed(res) == IF res.err = "Ok" THEN res.st ELSE Ledger

\* the ledger after the transaction, and what its caller is told: a failed
\* transaction leaves only its error
Outcome(op, r) ==
    LET res == process(op, r)
    IN  [st |-> Committed(res),
         last |-> IF res.err = "Ok"
                  THEN [op |-> op, err |-> "Ok", req |-> r, transfers |-> res.transfers]
                  ELSE [op |-> op, err |-> res.err, req |-> NoRequest,
                        transfers |-> <<>>]]

InitializeOrder ==
    /\ last.err = "Ok"
    /\ \E r \in InitializeRequests :
        LET out == Outcome("InitializeOrder", r)
        IN  /\ orders' = out.st.orders
            /\ tokens' = out.st.tokens
            /\ lamports' = out.st.lamports
            /\ last' = out.last
    /\ UNCHANGED mintProgram

ChangeOrderAmounts ==
    /\ last.err = "Ok"
    /\ \E r \in ChangeOrderAmountsRequests :
        LET out == Outcome("ChangeOrderAmounts", r)
        IN  /\ orders' = out.st.orders
            /\ tokens' = out.st.tokens
            /\ lamports' = out.st.lamports
            /\ last' = out.last
    /\ UNCHANGED mintProgram

ChangeTaker ==
    /\ last.err = "Ok"
    /\ \E r \in ChangeTakerRequests :
        LET out == Outcome("ChangeTaker", r)
        IN  /\ orders' = out.st.orders
            /\ tokens' = out.st.tokens
            /\ lamports' = out.st.lamports
            /\ last' = out.last
    /\ UNCHANGED mintProgram

CompleteSwap ==
    /\ last.err = "Ok"
    /\ \E r \in CompleteSwapRequests :
        LET out == Outcome("CompleteSwap", r)
        IN  /\ orders' = out.st.orders
            /\ tokens' = out.st.tokens
            /\ lamports' = out.st.lamports
            /\ last' = out.last
    /\ UNCHANGED mintProgram

CloseOrder ==
    /\ last.err = "Ok"
    /\ \E r \in CloseOrderRequests :
        LET out == Outcome("CloseOrder", r)
        IN  /\ orders' = out.st.orders
            /\ tokens' = out.st.tokens
            /\ lamports' = out.st.lamports
            /\ last' = out.last
    /\ UNCHANGED mintProgram

\* a user sends one token of the custody's mint to the custody account of
\* a derived address with the token program directly: anyone may credit
\* any token account
TokenDeposit ==
    /\ last.err = "Ok"
    /\ \E u \in Users, c \in {k \in CustodyAccts : k[1] \in PdaAddrs} :
        LET res == token_transfer(Ledger, mintProgram[c[2]], <<u, c[2]>>, c, u, TRUE, 1)
        IN  /\ res.err = "Ok"
            /\ tokens' = res.st.tokens
            /\ last' = [op |-> "TokenDeposit", err |-> "Ok", req |-> NoRequest,
                        transfers |-> <<Transfer(<<u, c[2]>>, c, u, 1)>>]
    /\ UNCHANGED <<orders, lamports, mintProgram>>

\* the caller of a failed transaction receives its error; the ledger is as
\* before, and the next request is sent
ReceiveError ==
    /\ last.err # "Ok"
    /\ last' = [op |-> "None", err |-> "Ok", req |-> NoRequest, transfers |-> <<>>]
    /\ UNCHANGED <<orders, tokens, lamports, mintProgram>>

Next ==
    \/ InitializeOrder
    \/ ChangeOrderAmounts
    \/ ChangeTaker
    \/ CompleteSwap
    \/ CloseOrder
    \/ TokenDeposit
    \/ ReceiveError

Spec == Init /\ [][Next]_vars

\* the same program with the order accounts of two makers in the ledger
SpecTwoMakers == InitTwoMakers /\ [][Next]_vars

----------------------------------------------------------------------------
(* What the claims speak of.                                               *)

IsOpen(a) == orders[a].allocated
Authenticated(a) == validate_order_pda(Ledger, a) = "Ok"
CustodyOf(a) == <<a, orders[a].maker_token_mint>>
MakerHolding(a) == <<orders[a].maker, orders[a].maker_token_mint>>
Did(op) == last.op = op /\ last.err = "Ok"
Failed(op, e) == last.op = op /\ last.err = e

\* the token balances after `amount` moved from one account to another
AfterTransfer(tk, from, to, amount) ==
    [[tk EXCEPT ![from].amount = @ - amount] EXCEPT ![to].amount = @ + amount]

\* the request names the four token accounts the order prescribes, and a
\* token program
SwapAccountsOfOrder(r) ==
    LET order == orders[r.order_account]
    IN  /\ r.token_program \in TokenPrograms
        /\ r.maker_taker_mint_ata = <<order.maker, order.taker_token_mint>>
        /\ r.taker_sending_ata = <<r.taker, order.taker_token_mint>>
        /\ r.taker_maker_mint_ata = <<r.taker, order.maker_token_mint>>
        /\ r.order_maker_token_ata = CustodyOf(r.order_account)
        /\ tokens[r.order_maker_token_ata].open

SwapTransfers(r) ==
    LET order == orders[r.order_account]
    IN  <<Transfer(r.taker_sending_ata, r.maker_taker_mint_ata, r.taker,
                   order.taker_amount),
          Transfer(r.order_maker_token_ata, r.taker_maker_mint_ata, r.order_account,
                   order.maker_amount)>>

\* the swap succeeded with exactly the two legs and left the order alone
SwapSettled(r, res) ==
    LET order == orders[r.order_account]
    IN  /\ res.err = "Ok"
        /\ res.transfers = SwapTransfers(r)
        /\ res.st.tokens =
              AfterTransfer(AfterTransfer(tokens, r.taker_sending_ata,
                                          r.maker_taker_mint_ata, order.taker_amount),
                            r.order_maker_token_ata, r.taker_maker_mint_ata,
                            order.maker_amount)
        /\ res.st.orders = orders
        /\ res.st.lamports = lamports

----------------------------------------------------------------------------
(* C1: Settle by order.taker on an authenticated open order fails with     *)
(* InsufficientFunds when custody < maker_amount, else succeeds with       *)
(* exactly the two transfers, the Order record unchanged.                  *)

\* C1 as stated: whenever the custody balance covers maker_amount, the
\* settle succeeds
C1_AsStated ==
    \A r \in CompleteSwapRequests :
        LET order == orders[r.order_account]
            res == process_complete_swap(Ledger, r)
        IN  (Authenticated(r.order_account) /\ r.taker = order.taker
             /\ SwapAccountsOfOrder(r))
            => IF tokens[r.order_maker_token_ata].amount < order.maker_amount
               THEN res.err = "InsufficientFunds"
               ELSE SwapSettled(r, res)

\* C1 amended: Settle by order.taker on an authenticated open order, with
\* the accounts of the order, fails with InsufficientFunds when the custody
\* balance is below maker_amount; otherwise it succeeds with exactly the
\* two transfers and the Order record unchanged when both mints are served
\* by the supplied token program and the taker's sending account holds at
\* least taker_amount, and fails with nothing changed when not.
C1_Settle ==
    \A r \in CompleteSwapRequests :
        LET order == orders[r.order_account]
            res == process_complete_swap(Ledger, r)
        IN  (Authenticated(r.order_account) /\ r.taker = order.taker
             /\ SwapAccountsOfOrder(r))
            => IF tokens[r.order_maker_token_ata].amount < order.maker_amount
               THEN res.err = "InsufficientFunds" /\ Committed(res) = Ledger
               ELSE IF /\ mintProgram[order.maker_token_mint] = r.token_program
                       /\ mintProgram[order.taker_token_mint] = r.token_program
                       /\ tokens[r.taker_sending_ata].amount >= order.taker_amount
               THEN SwapSettled(r, res)
               ELSE res.err \notin {"Ok", "InsufficientFunds"} /\ Committed(res) = Ledger

C1_Witness ==
    /\ Did("CompleteSwap")
    /\ Len(last.transfers) = 2
    /\ last.transfers[1].amount > 0
    /\ last.transfers[2].amount > 0
    /\ orders[last.req.order_account].allocated

----------------------------------------------------------------------------
(* C2: a successful CloseOrder, for every custody balance including 0,     *)
(* zeroes the Order record, moves its lamports to the caller and closes    *)
(* the custody account, its lamports returned to the caller; a balance     *)
(* above 0 is first transferred, exactly, to the maker's holding account.  *)

C2_CloseStep ==
    (last'.op = "CloseOrder" /\ last'.err = "Ok") =>
        LET r == last'.req
            a == r.order_account
            balance == tokens[r.order_token_ata].amount
        IN  /\ orders'[a] = NoOrder
            /\ lamports'[a] = 0
            /\ ~tokens'[r.order_token_ata].open
            /\ tokens'[r.order_token_ata].amount = 0
            /\ lamports'[r.authority] =
                  lamports[r.authority] + lamports[a] + tokens[r.order_token_ata].lamports
            /\ last'.transfers =
                  IF balance > 0
                  THEN <<Transfer(r.order_token_ata, MakerHolding(a), a, balance)>>
                  ELSE <<>>

C2_AsStated == [][C2_CloseStep]_vars

----------------------------------------------------------------------------
(* C3: a successful AmendAmounts reconciles against the custody balance b: *)
(* it deposits new - b from the maker, or withdraws b - new to the maker,  *)
(* or moves nothing; afterwards the custody balance is new_maker_amount    *)
(* and the record holds the two new amounts.                               *)

C3_AmendStep ==
    (last'.op = "ChangeOrderAmounts" /\ last'.err = "Ok") =>
        LET r == last'.req
            a == r.order_account
            b == tokens[CustodyOf(a)].amount
        IN  /\ tokens'[CustodyOf(a)].amount = r.new_maker_amount
            /\ orders'[a] = [orders[a] EXCEPT !.maker_amount = r.new_maker_amount,
                                              !.taker_amount = r.new_taker_amount]
            /\ last'.transfers =
                  IF r.new_maker_amount > b
                  THEN <<Transfer(MakerHolding(a), CustodyOf(a), orders[a].maker,
                                  r.new_maker_amount - b)>>
                  ELSE IF r.new_maker_amount < b
                  THEN <<Transfer(CustodyOf(a), MakerHolding(a), a,
                                  b - r.new_maker_amount)>>
                  ELSE <<>>

C3_AsStated == [][C3_AmendStep]_vars

----------------------------------------------------------------------------
(* C4: after a successful AmendAmounts, a second AmendAmounts by the maker *)
(* with the same new_maker_amount performs no transfer and leaves the      *)
(* custody balance (and, with the same new_taker_amount, the record) as    *)
(* the first call left them.                                               *)

C4_AsStated ==
    Did("ChangeOrderAmounts") =>
        \A r \in ChangeOrderAmountsRequests :
            LET res == process_change_order_amounts(Ledger, r)
            IN  (/\ r.maker = last.req.maker
                 /\ r.order_account = last.req.order_account
                 /\ r.new_maker_amount = last.req.new_maker_amount
                 /\ res.err = "Ok")
                => /\ res.transfers = <<>>
                   /\ res.st.tokens = tokens
                   /\ (r.new_taker_amount = last.req.new_taker_amount
                         => res.st.orders = orders)

----------------------------------------------------------------------------
(* C5: a successful CreateOrder has both amounts > 0, leaves the custody   *)
(* balance equal to maker_amount, and the new Order record holds exactly   *)
(* the signer as maker and the supplied taker, mints and amounts.          *)

OrderAsRequested(r) ==
    [allocated |-> TRUE, maker |-> r.maker, taker |-> r.taker,
     maker_token_mint |-> r.maker_mint, taker_token_mint |-> r.taker_mint,
     maker_amount |-> r.maker_amount, taker_amount |-> r.taker_amount,
     bump |-> get_order_pda(r.maker, r.maker_mint, r.taker_mint).bump]

C5_AsStated ==
    Did("InitializeOrder") =>
        LET r == last.req
        IN  /\ r.maker_amount > 0 /\ r.taker_amount > 0
            /\ r.maker_signed
            /\ tokens[r.order_maker_mint_ata].amount = r.maker_amount
            /\ orders[r.order_account] = OrderAsRequested(r)

\* C5 amended: a successful CreateOrder has both amounts > 0, raises the
\* custody balance by exactly maker_amount (to maker_amount when the
\* custody account was empty), and the new Order record holds exactly the
\* signer as maker and the supplied taker, mints and amounts.
C5_CreateStep ==
    (last'.op = "InitializeOrder" /\ last'.err = "Ok") =>
        LET r == last'.req
        IN  /\ r.maker_amount > 0 /\ r.taker_amount > 0
            /\ r.maker_signed
            /\ ~orders[r.order_account].allocated
            /\ tokens'[r.order_maker_mint_ata].amount =
                  tokens[r.order_maker_mint_ata].amount + r.maker_amount
            /\ tokens'[r.maker_mint_ata].amount =
                  tokens[r.maker_mint_ata].amount - r.maker_amount
            /\ orders'[r.order_account] = OrderAsRequested(r)

C5_Create == [][C5_CreateStep]_vars

C5_Witness ==
    /\ Did("InitializeOrder")
    /\ tokens[last.req.order_maker_mint_ata].amount > last.req.maker_amount
    /\ orders[last.req.order_account] = OrderAsRequested(last.req)

----------------------------------------------------------------------------
(* C6: CreateOrder with maker_amount = 0 or taker_amount = 0 always fails  *)
(* with InvalidAmount, whatever else is in the request (signed or not),    *)
(* and no account is allocated and no transfer happens.                    *)

ZeroAmount(r) == r.maker_amount = 0 \/ r.taker_amount = 0

C6_AsStated ==
    \A r \in InitializeRequests :
        ZeroAmount(r) =>
            LET res == process_initialize_order(Ledger, r)
            IN  res.err = "InvalidAmount" /\ res.st = Ledger /\ res.transfers = <<>>

\* C6 amended: CreateOrder with a zero amount fails with InvalidAmount when
\* the maker signed and with MissingSigner when the maker did not, whatever
\* else is in the request; no account is allocated and nothing is
\* transferred.
C6_ZeroAmount ==
    \A r \in InitializeRequests :
        ZeroAmount(r) =>
            LET res == process_initialize_order(Ledger, r)
            IN  /\ res.err = IF r.maker_signed THEN "InvalidAmount" ELSE "MissingSigner"
                /\ res.st = Ledger
                /\ res.transfers = <<>>

C6_Witness == Failed("InitializeOrder", "InvalidAmount")

----------------------------------------------------------------------------
(* C7: on an existing authenticated order, AmendAmounts, Reassign and      *)
(* CloseOrder by a caller who is not order.maker fail with                 *)
(* AuthorityMismatch, Settle by a caller who is not order.taker fails with *)
(* CounterpartyMismatch, and no order is mutated.                          *)

Rejected(res, e) == res.err = e /\ res.st = Ledger /\ res.transfers = <<>>

C7_WrongCaller ==
    /\ \A r \in ChangeOrderAmountsRequests :
          (Authenticated(r.order_account) /\ r.maker # orders[r.order_account].maker)
          => Rejected(process_change_order_amounts(Ledger, r), "AuthorityMismatch")
    /\ \A r \in ChangeTakerRequests :
          (Authenticated(r.order_account) /\ r.maker # orders[r.order_account].maker)
          => Rejected(process_change_taker(Ledger, r), "AuthorityMismatch")
    /\ \A r \in CloseOrderRequests :
          (Authenticated(r.order_account) /\ r.authority # orders[r.order_account].maker)
          => Rejected(process_close_order(Ledger, r), "AuthorityMismatch")
    /\ \A r \in CompleteSwapRequests :
          (Authenticated(r.order_account) /\ r.taker # orders[r.order_account].taker)
          => Rejected(process_complete_swap(Ledger, r), "CounterpartyMismatch")

C7_Witness ==
    /\ Failed("ChangeTaker", "AuthorityMismatch")
    /\ \E a \in OrderAddrs : Authenticated(a)

----------------------------------------------------------------------------
(* C8: AmendAmounts, Reassign, Settle and CloseOrder each reject, with     *)
(* AddressMismatch and before anything else, an order account whose        *)
(* address is not the one derived from the maker and mints recorded in it. *)

NotDerived(a) ==
    /\ orders[a].allocated
    /\ a # get_order_pda(orders[a].maker, orders[a].maker_token_mint,
                         orders[a].taker_token_mint).address

C8_AsStated ==
    /\ \A r \in ChangeOrderAmountsRequests : NotDerived(r.order_account)
          => Rejected(process_change_order_amounts(Ledger, r), "AddressMismatch")
    /\ \A r \in ChangeTakerRequests : NotDerived(r.order_account)
          => Rejected(process_change_taker(Ledger, r), "AddressMismatch")
    /\ \A r \in CompleteSwapRequests : NotDerived(r.order_account)
          => Rejected(process_complete_swap(Ledger, r), "AddressMismatch")
    /\ \A r \in CloseOrderRequests : NotDerived(r.order_account)
          => Rejected(process_close_order(Ledger, r), "AddressMismatch")

----------------------------------------------------------------------------
(* C9: at most one Order exists per (maker, maker_mint, taker_mint); a     *)
(* CreateOrder for a triple whose order is still open fails.               *)

Triple(o) == <<o.maker, o.maker_token_mint, o.taker_token_mint>>

C9_AsStated ==
    /\ \A a, b \in OrderAddrs :
          (orders[a].allocated /\ orders[b].allocated
           /\ Triple(orders[a]) = Triple(orders[b])) => a = b
    /\ \A r \in InitializeRequests :
          (\E a \in OrderAddrs :
              /\ orders[a].allocated
              /\ Triple(orders[a]) = <<r.maker, r.maker_mint, r.taker_mint>>)
          => process_initialize_order(Ledger, r).err # "Ok"

----------------------------------------------------------------------------
(* C10: a request that fails, at whatever point and for whatever reason,   *)
(* leaves every Order record, token balance and lamport balance as it was. *)

C10_FailedStep ==
    last'.err # "Ok" =>
        /\ orders' = orders
        /\ tokens' = tokens
        /\ lamports' = lamports
        /\ last'.transfers = <<>>

C10_Atomic == [][C10_FailedStep]_vars

\* a CreateOrder whose deposit failed after the order account was allocated
C10_Witness ==
    /\ Failed("InitializeOrder", "TokenInsufficientFunds")
    /\ \A a \in OrderAddrs : ~orders[a].allocated

----------------------------------------------------------------------------
(* C11: ReassignCounterparty by order.maker with a new_taker that differs  *)
(* from the key of the supplied new-taker account fails with               *)
(* InvalidArgument and leaves order.taker and the rest of the record       *)
(* unchanged.                                                              *)

C11_NewTakerMismatch ==
    \A r \in ChangeTakerRequests :
        (/\ orders[r.order_account].allocated
         /\ r.maker = orders[r.order_account].maker
         /\ r.new_taker # r.new_taker_info)
        => Rejected(process_change_taker(Ledger, r), "InvalidArgument")

C11_Witness ==
    /\ Failed("ChangeTaker", "InvalidArgument")
    /\ \E a \in OrderAddrs : orders[a].allocated

----------------------------------------------------------------------------
(* C12: the custody balance of an open order decreases only in a           *)
(* successful Settle on that order signed by order.taker, or a successful  *)
(* AmendAmounts or CloseOrder on it signed by order.maker.                 *)

C12_CustodyStep ==
    \A a \in OrderAddrs :
        (/\ orders[a].allocated
         /\ tokens'[CustodyOf(a)].amount < tokens[CustodyOf(a)].amount)
        => /\ last'.err = "Ok"
           /\ last'.op \in {"CompleteSwap", "ChangeOrderAmounts", "CloseOrder"}
           /\ last'.req.order_account = a
           /\ last'.op = "CompleteSwap" => last'.req.taker = orders[a].taker
           /\ last'.op = "ChangeOrderAmounts" => last'.req.maker = orders[a].maker
           /\ last'.op = "CloseOrder" => last'.req.authority = orders[a].maker

C12_CustodyDecrease == [][C12_CustodyStep]_vars

\* a CloseOrder by the maker has just paid the custody balance out
C12_Witness ==
    /\ Did("CloseOrder")
    /\ Len(last.transfers) = 1
    /\ last.transfers[1].from = last.req.order_token_ata
    /\ last.transfers[1].amount > 0

----------------------------------------------------------------------------
(* C13: after a successful Settle the order is still open, and a further   *)
(* Settle by order.taker succeeds whenever the custody balance is still    *)
(* >= maker_amount and fails with InsufficientFunds otherwise; after       *)
(* Create(m, t), one Settle and nothing else, a second Settle fails with   *)
(* InsufficientFunds.                                                      *)

\* the state after a successful Settle: the order is open, and the same
\* request sent again fails with InsufficientFunds when custody is short
\* and otherwise succeeds; with `if_paid`, otherwise succeeds when the
\* taker's sending account holds taker_amount and fails when it does not
SettleTwice(if_paid) ==
    Did("CompleteSwap") =>
        LET r == last.req
            order == orders[r.order_account]
            res == process_complete_swap(Ledger, r)
        IN  /\ order.allocated
            /\ IF tokens[r.order_maker_token_ata].amount < order.maker_amount
               THEN res.err = "InsufficientFunds"
               ELSE IF if_paid /\ tokens[r.taker_sending_ata].amount < order.taker_amount
               THEN res.err \notin {"Ok", "InsufficientFunds"} /\ Committed(res) = Ledger
               ELSE SwapSettled(r, res)

\* CreateOrder into an empty custody account, directly followed by a
\* Settle: the same Settle again fails with InsufficientFunds
C13_CreateSettleStep ==
    (/\ last.op = "InitializeOrder" /\ last.err = "Ok"
     /\ tokens[last.req.order_maker_mint_ata].amount = last.req.maker_amount
     /\ last'.op = "CompleteSwap" /\ last'.err = "Ok"
     /\ last'.req.order_account = last.req.order_account)
    => process_complete_swap(Ledger', last'.req).err = "InsufficientFunds"

C13_AsStated == [] SettleTwice(FALSE) /\ [][C13_CreateSettleStep]_vars

\* C13 amended: after a successful Settle the order is still open, and the
\* same Settle sent again fails with InsufficientFunds when the custody
\* balance is below maker_amount, succeeds when it is not and the taker's
\* sending account still holds taker_amount, and fails otherwise; after
\* Create(m, t) into an empty custody account, one Settle and nothing else,
\* a second Settle fails with InsufficientFunds.
C13_SettleAgain == [] SettleTwice(TRUE) /\ [][C13_CreateSettleStep]_vars

\* a Settle has emptied the custody account of an order that is still open
C13_Witness ==
    /\ Did("CompleteSwap")
    /\ orders[last.req.order_account].allocated
    /\ orders[last.req.order_account].maker_amount > 0
    /\ tokens[last.req.order_maker_token_ata].amount = 0

----------------------------------------------------------------------------
(* C14: in every reachable state in which an order is open, CloseOrder     *)
(* signed by order.maker with the order's custody account and the maker's  *)
(* holding account succeeds, and afterwards the order does not exist and   *)
(* its custody account holds no tokens.                                    *)

CloseByMaker(a) ==
    [authority |-> orders[a].maker, order_account |-> a,
     order_token_ata |-> CustodyOf(a), maker_token_ata |-> MakerHolding(a),
     token_program |-> mintProgram[orders[a].maker_token_mint]]

Closes(a) ==
    LET res == process_close_order(Ledger, CloseByMaker(a))
    IN  /\ res.err = "Ok"
        /\ res.st.orders[a] = NoOrder
        /\ res.st.tokens[CustodyOf(a)].amount = 0

C14_AsStated == \A a \in OrderAddrs : orders[a].allocated => Closes(a)

----------------------------------------------------------------------------
(* C15: after a successful ReassignCounterparty(new_taker), order.taker is *)
(* new_taker: a following Settle succeeds only when signed by new_taker,   *)
(* and a Settle signed by the previous taker, when different, fails with   *)
(* CounterpartyMismatch.                                                   *)

C15_ReassignStep ==
    (last'.op = "ChangeTaker" /\ last'.err = "Ok") =>
        LET r == last'.req
            a == r.order_account
            previous == orders[a].taker
        IN  /\ orders'[a].taker = r.new_taker
            /\ \A q \in CompleteSwapRequests :
                  q.order_account = a =>
                      LET res == process_complete_swap(Ledger', q)
                      IN  /\ res.err = "Ok" => q.taker = r.new_taker
                          /\ (q.taker = previous /\ previous # r.new_taker)
                                => res.err = "CounterpartyMismatch"

C15_AsStated == [][C15_ReassignStep]_vars

----------------------------------------------------------------------------
(* C16: a successful ReassignCounterparty changes only order.taker: maker, *)
(* mints, amounts, bump and every token balance stay; a successful         *)
(* AmendAmounts changes only maker_amount, taker_amount and the balances   *)
(* of the custody account and the maker's holding account.                 *)

C16_ReassignFrame ==
    (last'.op = "ChangeTaker" /\ last'.err = "Ok") =>
        LET r == last'.req
        IN  /\ orders' = [orders EXCEPT ![r.order_account].taker = r.new_taker]
            /\ tokens' = tokens
            /\ lamports' = lamports

C16_AmendFrame ==
    (last'.op = "ChangeOrderAmounts" /\ last'.err = "Ok") =>
        LET r == last'.req
            a == r.order_account
        IN  /\ orders' = [orders EXCEPT ![a].maker_amount = r.new_maker_amount,
                                        ![a].taker_amount = r.new_taker_amount]
            /\ \A k \in TokenAccts \ {CustodyOf(a), MakerHolding(a)} :
                  tokens'[k] = tokens[k]
            /\ lamports' = lamports

C16_AsStated == [][C16_ReassignFrame /\ C16_AmendFrame]_vars

----------------------------------------------------------------------------
(* C17: across every transition, successful or failed, the sum of the      *)
(* balances of each asset over all custody and holding accounts is         *)
(* unchanged; the balances after a request are the balances before with    *)
(* each of its transfers debited from one account and credited to the      *)
(* other by the same amount; no balance is negative.                       *)

RECURSIVE SumAmounts(_, _)
SumAmounts(tk, accts) ==
    IF accts = {} THEN 0
    ELSE LET k == CHOOSE x \in accts : TRUE
         IN  tk[k].amount + SumAmounts(tk, accts \ {k})

Supply(tk, mint) == SumAmounts(tk, {k \in TokenAccts : k[2] = mint})

RECURSIVE AfterTransfers(_, _)
AfterTransfers(tk, transfers) ==
    IF transfers = <<>> THEN tk
    ELSE AfterTransfers(AfterTransfer(tk, Head(transfers).from, Head(transfers).to,
                                      Head(transfers).amount),
                        Tail(transfers))

C17_ConservedStep ==
    /\ \A mint \in Mints : Supply(tokens', mint) = Supply(tokens, mint)
    /\ \A k \in TokenAccts : tokens'[k].amount >= 0
    /\ last' # last =>
          \A k \in TokenAccts :
              tokens'[k].amount = AfterTransfers(tokens, last'.transfers)[k].amount

C17_Conservation == [][C17_ConservedStep]_vars

\* an AmendAmounts has just moved tokens between custody and a holding
\* account
C17_Witness ==
    /\ Did("ChangeOrderAmounts")
    /\ Len(last.transfers) = 1
    /\ last.transfers[1].amount > 0
    /\ last.transfers[1].from # last.transfers[1].to

----------------------------------------------------------------------------
(* C18: once CloseOrder has succeeded the order record is zeroed, and on a *)
(* non-existent order every AmendAmounts, ReassignCounterparty, Settle and *)
(* CloseOrder fails with no mutation; only CreateOrder can succeed on it.  *)

FailsUnchanged(res) == res.err # "Ok" /\ Committed(res) = Ledger /\ res.transfers = <<>>

AllFailOn(a) ==
    /\ \A r \in ChangeOrderAmountsRequests :
          r.order_account = a => FailsUnchanged(process_change_order_amounts(Ledger, r))
    /\ \A r \in ChangeTakerRequests :
          r.order_account = a => FailsUnchanged(process_change_taker(Ledger, r))
    /\ \A r \in CompleteSwapRequests :
          r.order_account = a => FailsUnchanged(process_complete_swap(Ledger, r))
    /\ \A r \in CloseOrderRequests :
          r.order_account = a => FailsUnchanged(process_close_order(Ledger, r))

C18_AfterClose ==
    /\ Did("CloseOrder") => AllFailOn(last.req.order_account)
    /\ \A a \in OrderAddrs : ~orders[a].allocated => AllFailOn(a)

\* an order was closed and CreateOrder can open it again
C18_Witness ==
    /\ Did("CloseOrder")
    /\ ~orders[last.req.order_account].allocated
    /\ \E r \in InitializeRequests :
          /\ r.order_account = last.req.order_account
          /\ process_initialize_order(Ledger, r).err = "Ok"

----------------------------------------------------------------------------
(* C19: every open Order record has maker_amount > 0 and taker_amount > 0  *)
(* in every reachable state.                                               *)

C19_AsStated ==
    \A a \in OrderAddrs :
        orders[a].allocated => orders[a].maker_amount > 0 /\ orders[a].taker_amount > 0

----------------------------------------------------------------------------
(* C20: every token unit leaving custody in AmendAmounts is credited to    *)
(* the holding account owned by order.maker for the order's maker asset,   *)
(* and AmendAmounts rejects any other destination account.                 *)

C20_RefundStep ==
    (last'.op = "ChangeOrderAmounts" /\ last'.err = "Ok") =>
        LET a == last'.req.order_account
        IN  \A i \in 1..Len(last'.transfers) :
                last'.transfers[i].from = CustodyOf(a)
                => last'.transfers[i].to = MakerHolding(a)

C20_Rejects ==
    \A r \in ChangeOrderAmountsRequests :
        (/\ Authenticated(r.order_account)
         /\ r.maker = orders[r.order_account].maker
         /\ r.maker_token_account # MakerHolding(r.order_account))
        => process_change_order_amounts(Ledger, r).err # "Ok"

C20_AsStated == []C20_Rejects /\ [][C20_RefundStep]_vars

----------------------------------------------------------------------------
(* C21: with several orders open, a transition executed against one order, *)
(* successful or failed, leaves the record and the custody balance of      *)
(* every other order unchanged; a maker never amends, reassigns or closes  *)
(* an order whose recorded maker is someone else.                          *)

OrderUntouched(a) ==
    /\ orders'[a] = orders[a]
    /\ tokens'[CustodyOf(a)].amount = tokens[CustodyOf(a)].amount

C21_IsolationStep ==
    /\ (last' # last /\ last'.err # "Ok") =>
          \A a \in OrderAddrs : orders[a].allocated => OrderUntouched(a)
    /\ (/\ last'.err = "Ok"
        /\ last'.op \in {"InitializeOrder", "ChangeOrderAmounts", "ChangeTaker",
                         "CompleteSwap", "CloseOrder"}) =>
          \A a \in OrderAddrs \ {last'.req.order_account} :
              orders[a].allocated => OrderUntouched(a)

C21_OthersOrder ==
    /\ \A r \in ChangeOrderAmountsRequests :
          (orders[r.order_account].allocated /\ r.maker # orders[r.order_account].maker)
          => FailsUnchanged(process_change_order_amounts(Ledger, r))
    /\ \A r \in ChangeTakerRequests :
          (orders[r.order_account].allocated /\ r.maker # orders[r.order_account].maker)
          => FailsUnchanged(process_change_taker(Ledger, r))
    /\ \A r \in CloseOrderRequests :
          (orders[r.order_account].allocated
           /\ r.authority # orders[r.order_account].maker)
          => FailsUnchanged(process_close_order(Ledger, r))

C21_AsStated == []C21_OthersOrder /\ [][C21_IsolationStep]_vars

====
